---- MODULE Spec2Model ----
(***************************************************************************)
(* Model of Jars/script.py: the batch runner that reads a mode from the    *)
(* command line and, for each of seven fixed instance identifiers, hands   *)
(* one command string to os.system.                                        *)
(*                                                                         *)
(* Strings are sequences of one-character strings, so that concatenation   *)
(* (Python's +) is \o and the shell's reading of the command string is a   *)
(* computation on characters.  os.system runs `/bin/sh -c <command>` and   *)
(* blocks until the shell has exited; which shell /bin/sh is depends on    *)
(* the platform, so the shell's token rule is chosen in Init.              *)
(***************************************************************************)
EXTENDS Integers, Sequences, FiniteSets, TLC

VARIABLES argv, shell, pc, mode, idx, instance, procs, log, fs, jars, terminal

vars == <<argv, shell, pc, mode, idx, instance, procs, log, fs, jars, terminal>>

(***************************************************************************)
(* Bounds of the model.                                                    *)
(***************************************************************************)
\* the invoked tool exits with a status in 0..MaxStatus
MaxStatus == 1

\* the mode strings a caller may pass ("ga", "ts"): words without characters
\* that are special to the shell
Modes == { <<"g","a">>, <<"t","s">> }

ScriptName == <<"s","c","r","i","p","t",".","p","y">>

(***************************************************************************)
(* script.py line 4: the fixed instance list.                              *)
(***************************************************************************)
instances ==
  << <<"0","2","0">>, <<"0","4","0">>, <<"0","6","0">>, <<"0","8","0">>,
     <<"1","0","0">>, <<"2","0","0">>, <<"4","0","0">> >>

(***************************************************************************)
(* script.py line 5: mode = sys.argv[1].  Indexing a Python list past its  *)
(* end raises IndexError; av[n+1] is Python's av[n].                       *)
(***************************************************************************)
\* faulty variant: a missing argument reads as the empty string
ArgvIndexDefault(av, n) ==
  IF n + 1 <= Len(av) THEN [ok |-> TRUE, val |-> av[n + 1]]
                      ELSE [ok |-> TRUE, val |-> <<>>]

ArgvIndex(av, n) ==
  IF n + 1 <= Len(av) THEN [ok |-> TRUE, val |-> av[n + 1]]
                      ELSE [ok |-> FALSE, val |-> <<>>]

(***************************************************************************)
(* script.py line 7: for instance in instances.  The list iterator keeps   *)
(* an index, yields instances[index] and stops at the end of the list.     *)
(***************************************************************************)
\* faulty variant: the iteration stops one item early
ForHasNextShort(i) == i < Len(instances) - 1

ForHasNext(i) == i < Len(instances)

\* faulty variant: the list is walked from its end
ForItemReversed(i) == instances[Len(instances) - i]

ForItem(i) == instances[i + 1]

(***************************************************************************)
(* script.py line 8: the string literals and the concatenation.            *)
(***************************************************************************)
LauncherPrefix == <<"j","a","v","a"," ","-","j","a","r"," ">>

JarSuffix == <<".","j","a","r"," ">>

RedirectPrefix == <<">","r","e","s","u","l","t","s","/">>

Slash == <<"/">>

\* faulty variant: the instance is left out of the output path
CommandSharedTarget(m, inst) ==
  LauncherPrefix \o m \o JarSuffix \o inst \o RedirectPrefix \o m \o Slash

\* faulty variant: mode and instance change places in the launch part
CommandSwapped(m, inst) ==
  LauncherPrefix \o inst \o JarSuffix \o m \o RedirectPrefix \o m \o Slash \o inst

\* faulty variant: the output path gets an extension
CommandTxt(m, inst) ==
  LauncherPrefix \o m \o JarSuffix \o inst \o RedirectPrefix \o m \o Slash
    \o inst \o <<".","t","x","t">>

Command(m, inst) ==
  LauncherPrefix \o m \o JarSuffix \o inst \o RedirectPrefix \o m \o Slash \o inst

(***************************************************************************)
(* script.py line 8: os.system(command) runs /bin/sh -c command.  What     *)
(* follows is the shell's reading of a command string made of plain        *)
(* characters, blanks and '>': its tokens, then the simple command (words  *)
(* and redirections) they form.                                            *)
(***************************************************************************)
DigitChars == <<"0","1","2","3","4","5","6","7","8","9">>

IsDigit(c) == \E d \in 1..Len(DigitChars) : DigitChars[d] = c

DigitValue(c) == (CHOOSE d \in 1..Len(DigitChars) : DigitChars[d] = c) - 1

AllDigits(w) == Len(w) > 0 /\ \A j \in 1..Len(w) : IsDigit(w[j])

RECURSIVE Decimal(_)
Decimal(w) ==
  IF w = <<>> THEN 0
  ELSE 10 * Decimal(SubSeq(w, 1, Len(w) - 1)) + DigitValue(w[Len(w)])

\* The platform's /bin/sh.  "posix": the token rule of POSIX XCU 2.10.1 (a
\* word of digits only, delimited by '<' or '>', is an IO_NUMBER), which bash
\* and ksh follow.  "ash": dash and busybox ash, which take a file descriptor
\* number only from a single digit.
Shells == {"posix", "ash"}

IsIoNumber(sh, w) ==
  /\ AllDigits(w)
  /\ sh = "ash" => Len(w) = 1

IsDelimiter(c) == c = " " \/ c = ">"

\* the positions of the command string where a token starts: every '>', and
\* every first character of a run of characters that are not delimiters
TokenStarts(s) ==
  { j \in 1..Len(s) :
      \/ s[j] = ">"
      \/ ~IsDelimiter(s[j]) /\ (j = 1 \/ IsDelimiter(s[j - 1])) }

\* the last character of the word that starts at j
WordEnd(s, j) ==
  CHOOSE e \in j..Len(s) :
    /\ \A x \in j..e : ~IsDelimiter(s[x])
    /\ e = Len(s) \/ IsDelimiter(s[e + 1])

\* the token that starts at j: the operator '>', or the word up to the next
\* delimiter, which is an IO_NUMBER when '>' delimits it and the shell's rule
\* takes it for a file descriptor number
TokenAt(sh, s, j) ==
  IF s[j] = ">" THEN [kind |-> "great", text |-> <<">">>]
  ELSE LET e == WordEnd(s, j)
           w == SubSeq(s, j, e)
       IN  IF e < Len(s) /\ s[e + 1] = ">" /\ IsIoNumber(sh, w)
           THEN [kind |-> "io_number", text |-> w]
           ELSE [kind |-> "word", text |-> w]

\* the tokens of the command string, left to right
Tokens(sh, s) ==
  LET starts == TokenStarts(s)
      Nth(n) == CHOOSE j \in starts : Cardinality({ x \in starts : x < j }) = n - 1
  IN  [n \in 1..Cardinality(starts) |-> TokenAt(sh, s, Nth(n))]

\* The simple command of a token sequence.  A '>' takes the word after it as
\* its target and the IO_NUMBER before it, if any, as its file descriptor
\* (1 otherwise); every other word is a word of the command.
IsTarget(toks, i) == i > 1 /\ toks[i].kind = "word" /\ toks[i - 1].kind = "great"

WellFormed(toks) ==
  \A i \in 1..Len(toks) :
    /\ toks[i].kind = "great" => (i < Len(toks) /\ toks[i + 1].kind = "word")
    /\ toks[i].kind = "io_number" => (i < Len(toks) /\ toks[i + 1].kind = "great")

RedirectionAt(toks, i) ==
  [fd     |-> IF i > 1 /\ toks[i - 1].kind = "io_number"
              THEN Decimal(toks[i - 1].text) ELSE 1,
   target |-> toks[i + 1].text]

ShellParse(sh, s) ==
  LET toks   == Tokens(sh, s)
      ok     == WellFormed(toks)
      wordAt == { i \in 1..Len(toks) : toks[i].kind = "word" /\ ~IsTarget(toks, i) }
      gtAt   == { i \in 1..Len(toks) : toks[i].kind = "great" }
      NthOf(S, n) == CHOOSE j \in S : Cardinality({ x \in S : x < j }) = n - 1
  IN  IF ~ok THEN [ok |-> FALSE, words |-> <<>>, redirs |-> <<>>]
      ELSE [ok     |-> TRUE,
            words  |-> [n \in 1..Cardinality(wordAt) |-> toks[NthOf(wordAt, n)].text],
            redirs |-> [n \in 1..Cardinality(gtAt) |->
                          RedirectionAt(toks, NthOf(gtAt, n))]]

\* The shell's reading of every command the runner can hand to it, worked
\* out once per shell and command string.
Commands == { Command(m, instances[k]) : m \in Modes, k \in 1..Len(instances) }

Parsed == [sh \in Shells |-> [c \in Commands |-> ShellParse(sh, c)]]

(***************************************************************************)
(* The file system the shell and the tool act on: the directories that     *)
(* exist and the regular files with their contents.                        *)
(***************************************************************************)
HasSlash(p) == \E j \in 1..Len(p) : p[j] = "/"

LastSlash(p) == CHOOSE j \in 1..Len(p) : p[j] = "/" /\ \A k \in (j + 1)..Len(p) : p[k] # "/"

\* the directory a path lies in; <<>> is the working directory
Dirname(p) == IF HasSlash(p) THEN SubSeq(p, 1, LastSlash(p) - 1) ELSE <<>>

DirExists(f, d) == d = <<>> \/ d \in f.dirs

EmptyFile == <<>>

\* faulty variant: the open creates the missing directory (as mkdir -p would)
OpenForWriteMkdir(f, path) ==
  [ok |-> TRUE,
   fs |-> [dirs  |-> f.dirs \cup {Dirname(path)},
           files |-> (path :> EmptyFile) @@ f.files]]

\* open(path, O_WRONLY|O_CREAT|O_TRUNC) of the shell's '>' redirection
OpenForWrite(f, path) ==
  IF DirExists(f, Dirname(path)) /\ path \notin f.dirs
  THEN [ok |-> TRUE, fs |-> [f EXCEPT !.files = (path :> EmptyFile) @@ @]]
  ELSE [ok |-> FALSE, fs |-> f]

\* the redirections of a simple command, performed in order: the open file
\* descriptors (fd -> path) and the file system afterwards; the first open
\* that fails ends it
RECURSIVE Redirect(_, _, _)
Redirect(redirs, i, st) ==
  IF i > Len(redirs) \/ ~st.ok THEN st
  ELSE LET o == OpenForWrite(st.fs, redirs[i].target)
       IN  Redirect(redirs, i + 1,
             [ok  |-> o.ok,
              fs  |-> o.fs,
              fds |-> IF o.ok THEN (redirs[i].fd :> redirs[i].target) @@ st.fds
                              ELSE st.fds])

\* write to a file opened by the redirection (appends at the file offset)
WriteFile(f, path, data) == [f EXCEPT !.files[path] = @ \o data]

(***************************************************************************)
(* The external tool: `java -jar <jar> <args>`.  java fails when the jar   *)
(* is not there; otherwise the tool runs with the arguments after the jar  *)
(* and writes its results for them to its standard output.                 *)
(***************************************************************************)
JavaWord == <<"j","a","v","a">>

JarOption == <<"-","j","a","r">>

IsJavaJar(words) == Len(words) >= 3 /\ words[1] = JavaWord /\ words[2] = JarOption

ToolOutput(jar, args) == << [tool |-> jar, args |-> args] >>

\* where the tool's standard output goes when the shell has not redirected it
Inherited == <<"t","t","y">>

StdoutOf(fds) == IF 1 \in DOMAIN fds THEN fds[1] ELSE Inherited

\* exit status of a shell whose redirection failed (bash 1, dash 2)
RedirectFailStatus(sh) == IF sh = "posix" THEN 1 ELSE 2

(***************************************************************************)
(* State.                                                                  *)
(*   argv      sys.argv                                                    *)
(*   shell     which /bin/sh os.system runs                                *)
(*   pc        the runner's position in script.py                          *)
(*   mode, idx, instance   the script's variables and the loop's iterator  *)
(*   procs     the child processes that exist (running or not yet reaped)  *)
(*   log       one record per os.system call, in call order                *)
(*   fs, jars  directories and files; the jar files that are present       *)
(*   terminal  what was written to the runner's own standard output        *)
(***************************************************************************)
NoStatus == -1

ResultsDirName == <<"r","e","s","u","l","t","s">>

ModeDirs == { ResultsDirName \o Slash \o m : m \in Modes }

JarFiles == { m \o <<".","j","a","r">> : m \in Modes }

ExitStatuses == 0..MaxStatus

Init ==
  /\ argv \in { <<ScriptName>> } \cup { <<ScriptName, m>> : m \in Modes }
  /\ shell \in Shells
  /\ pc = "start"
  /\ mode = <<>>
  /\ idx = 0
  /\ instance = <<>>
  /\ procs = {}
  /\ log = <<>>
  /\ \E ds \in SUBSET ModeDirs :
       fs \in { [dirs |-> {}, files |-> <<>>],
                [dirs |-> {ResultsDirName} \cup ds, files |-> <<>>] }
  /\ jars \in SUBSET JarFiles
  /\ terminal = <<>>

\* line 5: mode = sys.argv[1]; an IndexError ends the script
ReadMode ==
  /\ pc = "start"
  /\ LET a == ArgvIndex(argv, 1)
     IN  IF a.ok THEN /\ mode' = a.val
                      /\ pc' = "loop"
                 ELSE /\ pc' = "crashed"
                      /\ UNCHANGED mode
  /\ UNCHANGED <<argv, shell, idx, instance, procs, log, fs, jars, terminal>>

\* line 7: the for statement asks the iterator for the next item
ForNext ==
  /\ pc = "loop"
  /\ IF ForHasNext(idx)
     THEN /\ instance' = ForItem(idx)
          /\ idx' = idx + 1
          /\ pc' = "call"
     ELSE /\ pc' = "done"
          /\ UNCHANGED <<instance, idx>>
  /\ UNCHANGED <<argv, shell, mode, procs, log, fs, jars, terminal>>

\* faulty variant: the child is started without waiting for it
AfterSpawnNoWait == "loop"

\* the runner's position once os.system has forked the shell: it waits
AfterSpawn == "wait"

\* faulty variant: a nonzero status ends the script (as check_call would)
AfterReturnChecked(status) == IF status # 0 THEN "crashed" ELSE "loop"

\* the runner's position once os.system has returned `status`: the return
\* value is discarded and the loop goes on
AfterReturn(status) == "loop"

\* line 8: os.system(...) builds the command and starts /bin/sh -c on it
SystemStart ==
  /\ pc = "call"
  /\ LET cmd == Command(mode, instance)
         k   == Len(log) + 1
     IN  /\ log' = Append(log, [instance |-> instance, cmd |-> cmd,
                                parsed |-> FALSE, words |-> <<>>, redirs |-> <<>>,
                                started |-> FALSE, args |-> <<>>, stdout |-> <<>>,
                                status |-> NoStatus])
         /\ procs' = procs \cup { [k |-> k, phase |-> "shell", cmd |-> cmd,
                                   words |-> <<>>, fds |-> <<>>, status |-> NoStatus] }
  /\ pc' = AfterSpawn
  /\ UNCHANGED <<argv, shell, mode, idx, instance, fs, jars, terminal>>

Become(p, q) == procs' = (procs \ {p}) \cup {q}

\* the shell reads the command, performs its redirections and, if they
\* succeed, runs the command's words
ShellRun(p) ==
  /\ p.phase = "shell"
  /\ LET sc == Parsed[shell][p.cmd]
         r  == Redirect(sc.redirs, 1, [ok |-> sc.ok, fs |-> fs, fds |-> <<>>])
     IN  /\ log' = [log EXCEPT ![p.k].parsed = sc.ok,
                               ![p.k].words = sc.words,
                               ![p.k].redirs = sc.redirs]
         /\ fs' = r.fs
         /\ IF ~sc.ok
            THEN Become(p, [p EXCEPT !.phase = "exited", !.status = 2])
            ELSE IF ~r.ok
            THEN Become(p, [p EXCEPT !.phase = "exited",
                                     !.status = RedirectFailStatus(shell)])
            ELSE IF ~IsJavaJar(sc.words)
            THEN Become(p, [p EXCEPT !.phase = "exited", !.status = 127])
            ELSE Become(p, [p EXCEPT !.phase = "java", !.words = sc.words,
                                     !.fds = r.fds])
  /\ UNCHANGED <<argv, shell, pc, mode, idx, instance, jars, terminal>>

\* java opens the jar: without it java exits 1, with it the tool starts
JavaRun(p) ==
  /\ p.phase = "java"
  /\ IF p.words[3] \notin jars
     THEN /\ Become(p, [p EXCEPT !.phase = "exited", !.status = 1])
          /\ UNCHANGED log
     ELSE /\ Become(p, [p EXCEPT !.phase = "tool"])
          /\ log' = [log EXCEPT ![p.k].started = TRUE,
                                ![p.k].args = SubSeq(p.words, 4, Len(p.words)),
                                ![p.k].stdout = StdoutOf(p.fds)]
  /\ UNCHANGED <<argv, shell, pc, mode, idx, instance, fs, jars, terminal>>

\* the tool writes its results to its standard output and exits
ToolExit(p, st) ==
  /\ p.phase = "tool"
  /\ LET data == ToolOutput(p.words[3], SubSeq(p.words, 4, Len(p.words)))
     IN  IF 1 \in DOMAIN p.fds
         THEN /\ fs' = WriteFile(fs, p.fds[1], data)
              /\ UNCHANGED terminal
         ELSE /\ terminal' = terminal \o data
              /\ UNCHANGED fs
  /\ Become(p, [p EXCEPT !.phase = "exited", !.status = st])
  /\ UNCHANGED <<argv, shell, pc, mode, idx, instance, log, jars>>

\* the tool never exits
ToolHang(p) ==
  /\ p.phase = "tool"
  /\ Become(p, [p EXCEPT !.phase = "hung"])
  /\ UNCHANGED <<argv, shell, pc, mode, idx, instance, log, fs, jars, terminal>>

\* os.system's wait returns once the shell has exited; line 8 drops the value
SystemReturn(p) ==
  /\ pc = "wait"
  /\ p.phase = "exited"
  /\ procs' = procs \ {p}
  /\ log' = [log EXCEPT ![p.k].status = p.status]
  /\ pc' = AfterReturn(p.status)
  /\ UNCHANGED <<argv, shell, mode, idx, instance, fs, jars, terminal>>

Next ==
  \/ ReadMode
  \/ ForNext
  \/ SystemStart
  \/ \E p \in procs : ShellRun(p)
  \/ \E p \in procs : JavaRun(p)
  \/ \E p \in procs : \E st \in ExitStatuses : ToolExit(p, st)
  \/ \E p \in procs : ToolHang(p)
  \/ \E p \in procs : SystemReturn(p)

Spec == Init /\ [][Next]_vars

\* The runner and its children are scheduled by the operating system: a
\* step that stays possible is eventually taken.  A tool that never exits
\* is the tool's choice (ToolHang), not a lack of scheduling.
Fairness ==
  /\ WF_vars(ReadMode)
  /\ WF_vars(ForNext)
  /\ WF_vars(SystemStart)
  /\ WF_vars(\E p \in procs : ShellRun(p))
  /\ WF_vars(\E p \in procs : JavaRun(p))
  /\ WF_vars(\E p \in procs : ToolHang(p) \/ \E st \in ExitStatuses : ToolExit(p, st))
  /\ WF_vars(\E p \in procs : SystemReturn(p))

FairSpec == Spec /\ Fairness

(***************************************************************************)
(* Properties.  What a run is expected to show is written here from the    *)
(* specification's own literals, not from the definitions above.           *)
(***************************************************************************)
FixedOrder ==
  << <<"0","2","0">>, <<"0","4","0">>, <<"0","6","0">>, <<"0","8","0">>,
     <<"1","0","0">>, <<"2","0","0">>, <<"4","0","0">> >>

HasModeArg == Len(argv) >= 2

GivenMode == argv[2]

ExpectedDir == <<"r","e","s","u","l","t","s","/">> \o GivenMode

ExpectedTarget(k) == ExpectedDir \o <<"/">> \o FixedOrder[k]

ExpectedLaunch(k) ==
  <<"j","a","v","a"," ","-","j","a","r"," ">> \o GivenMode
    \o <<".","j","a","r"," ">> \o FixedOrder[k]

Issued == 1..Len(log)

Returned(k) == log[k].status # NoStatus

Hung == \E p \in procs : p.phase = "hung"

\* C1: a complete run issues exactly seven invocations, the k-th one for
\* the k-th identifier of the fixed list: none skipped, repeated or
\* reordered, and never more than seven.
C1_OnePerInstanceInOrder ==
  /\ Len(log) <= Len(FixedOrder)
  /\ \A k \in Issued : log[k].instance = FixedOrder[k]
  /\ pc = "done" => Len(log) = Len(FixedOrder)

C1_Witness ==
  /\ pc = "done"
  /\ Len(log) = 7
  /\ log[1].instance = <<"0","2","0">>
  /\ log[7].instance = <<"4","0","0">>

\* C2: the redirection target the shell reads from the k-th command is
\* exactly "results/" + m + "/" + instance, for the mode m of the command
\* line, and it is the command's only redirection.
C2_TargetIsConcatenation ==
  \A k \in Issued :
    log[k].parsed =>
      /\ Len(log[k].redirs) = 1
      /\ log[k].redirs[1].target = ExpectedTarget(k)

C2_Witness ==
  /\ Len(log) = 7
  /\ log[7].parsed
  /\ GivenMode = <<"g","a">>
  /\ log[7].redirs[1].target = <<"r","e","s","u","l","t","s","/","g","a","/","4","0","0">>

\* C3: the command string handed to the shell is "java -jar " + m + ".jar "
\* + instance, followed only by '>' and the output target.
C3_CommandIsConcatenation ==
  \A k \in Issued :
    LET n == Len(ExpectedLaunch(k))
    IN  /\ Len(log[k].cmd) = n + 1 + Len(ExpectedTarget(k))
        /\ SubSeq(log[k].cmd, 1, n) = ExpectedLaunch(k)
        /\ log[k].cmd[n + 1] = ">"
        /\ SubSeq(log[k].cmd, n + 2, Len(log[k].cmd)) = ExpectedTarget(k)

C3_Witness ==
  /\ Len(log) >= 5
  /\ GivenMode = <<"t","s">>
  /\ log[5].cmd = <<"j","a","v","a"," ","-","j","a","r"," ","t","s",".","j","a","r"," ",
                    "1","0","0",">","r","e","s","u","l","t","s","/","t","s","/","1","0","0">>

\* C4: whenever the tool is started by the k-th invocation, the instance
\* identifier is its sole argument and its standard output is the target
\* file.
C4_ToolGetsInstanceAndStdout ==
  \A k \in Issued :
    log[k].started =>
      /\ log[k].args = << FixedOrder[k] >>
      /\ log[k].stdout = ExpectedTarget(k)

\* C5: at most one child process exists at any time, and an invocation is
\* issued only after every earlier one has exited and been waited for.
C5_StrictlySequential ==
  /\ Cardinality(procs) <= 1
  /\ \A p \in procs : p.k = Len(log)
  /\ \A k \in Issued : k < Len(log) => Returned(k)

C5_Witness ==
  /\ Len(log) = 2
  /\ Returned(1)
  /\ \E p \in procs : p.k = 2 /\ p.phase = "tool"

\* C6: without a command-line argument the runner fails on reading the mode
\* and does nothing else: no invocation, no child, no file, no output.
C6_NoArgumentFailsFirst ==
  ~HasModeArg =>
    /\ pc \in {"start", "crashed"}
    /\ log = <<>>
    /\ procs = {}
    /\ DOMAIN fs.files = {}
    /\ terminal = <<>>

C6_Witness == ~HasModeArg /\ pc = "crashed"

\* C7: no failed invocation aborts the batch: with a mode given the runner
\* never crashes, and once an invocation has returned a nonzero status the
\* runner goes on through the list and stops only after all seven.
C7_FailureDoesNotAbort ==
  /\ HasModeArg => pc # "crashed"
  /\ \A k \in Issued :
       (Returned(k) /\ log[k].status # 0) =>
         /\ pc \in {"loop", "call", "wait", "done"}
         /\ pc = "done" => Len(log) = Len(FixedOrder)
         /\ (k = Len(log) /\ k < Len(FixedOrder)) => pc \in {"loop", "call"}

C7_Witness ==
  /\ Len(log) = 7
  /\ log[5].instance = <<"1","0","0">>
  /\ log[5].started
  /\ log[5].status = 1
  /\ log[6].instance = <<"2","0","0">>
  /\ log[7].instance = <<"4","0","0">>
  /\ pc = "done"

\* C8: the output targets of the invocations of one run are pairwise
\* distinct.
TargetsOf(k) == { log[k].redirs[i].target : i \in 1..Len(log[k].redirs) }

C8_DistinctTargets ==
  \A j, k \in Issued :
    (j # k /\ log[j].parsed /\ log[k].parsed) =>
      /\ TargetsOf(j) # {}
      /\ TargetsOf(j) \cap TargetsOf(k) = {}

C8_Witness ==
  /\ pc = "done"
  /\ \A k \in 1..7 : log[k].parsed
  /\ Cardinality(UNION { TargetsOf(k) : k \in 1..7 }) = 7

\* C9: when results/<mode>/ does not exist, no step of the run creates it
\* and no step leaves an output file of any instance behind.
C9_NeverCreatesModeDir ==
  [][ (HasModeArg /\ ExpectedDir \notin fs.dirs) =>
        /\ ExpectedDir \notin fs'.dirs
        /\ \A k \in 1..Len(FixedOrder) : ExpectedTarget(k) \notin DOMAIN fs'.files
    ]_vars

C9_Witness ==
  /\ pc = "done"
  /\ HasModeArg
  /\ ExpectedDir \notin fs.dirs
  /\ ResultsDirName \in fs.dirs
  /\ Len(log) = 7
  /\ \A k \in 1..7 : log[k].parsed /\ log[k].status # 0

\* C10: with a mode given, the runner eventually stops after exactly seven
\* invocations unless a child never exits; once stopped it takes no further
\* step; and while a child never exits no further invocation is issued.
C10_TerminatesAfterSeven ==
  /\ HasModeArg => <>(Hung \/ (pc = "done" /\ Len(log) = Len(FixedOrder) /\ procs = {}))
  /\ [][pc # "done"]_vars
  /\ [][Hung => (log' = log /\ pc' = "wait" /\ procs' = procs)]_vars

C10_Witness ==
  /\ pc = "done"
  /\ Len(log) = 7
  /\ log[1].status = 0
  /\ log[2].status = 1
  /\ log[3].status = 0
  /\ procs = {}

C10_WitnessBlocked ==
  /\ Hung
  /\ pc = "wait"
  /\ Len(log) = 3

====
